---------------------------- MODULE Spec2Model ----------------------------
(***************************************************************************)
(* A model of wikidata_update (src/wikidata_update/__init__.py): one       *)
(* invocation of the command line tool `main`, from click's argument       *)
(* parsing to the process exit, together with the pure validators and the  *)
(* credential resolver.                                                    *)
(*                                                                         *)
(* Python strings that the code inspects character by character (the QID,  *)
(* the release date) are sequences of one-character strings.  The two      *)
(* non-ASCII characters of the alphabets are written by their code point:  *)
(* "u0663" is ARABIC-INDIC DIGIT THREE (category Nd), "u00B2" is           *)
(* SUPERSCRIPT TWO (category No, str.isdigit() is True).                   *)
(***************************************************************************)
EXTENDS Integers, Sequences, FiniteSets, TLC

VARIABLES
    argv,               \* the parsed command line (click parameters of main)
    environ,            \* os.environ: the four WIKIDATA_* variables
    config_files,       \* the file system: config file path -> content
    session_files,      \* the file system: session file path -> file
    remote,             \* the entity's P348 statements on the server
    pc,                 \* position of the invocation in main
    config,             \* load_config's result
    session_file_path,  \* get_authenticated_session's session_file_path
    session,            \* the requests.Session main holds
    version_statements, \* main's version_statements (the list as read)
    idx,                \* downgrade_version_ranks' loop position
    claim_id,           \* add_version_statement's claim_id
    calls,              \* the HTTP requests issued so far, in order
    file_log,           \* the session file accesses so far, in order
    out,                \* what has been printed, in order (message tags)
    exit_code,          \* the process exit status (-1 while running)
    failure,            \* why the invocation ended
    fn_in,              \* input of a pure function under test
    fn_out,             \* its result
    peer                \* a second invocation running at the same time:
                        \* what is its own of the state above

vars == <<argv, environ, config_files, session_files, remote, pc, config,
          session_file_path, session, version_statements, idx, claim_id,
          calls, file_log, out, exit_code, failure, fn_in, fn_out, peer>>

None == "None"

(***************************************************************************)
(* Bounds of the model.                                                    *)
(***************************************************************************)
MaxQidLen == 3
MaxStatements == 2
MaxCookies == 2
MaxDowngradeLen == 4

(***************************************************************************)
(* Characters.                                                             *)
(***************************************************************************)
AsciiDigits == {"0", "1", "2", "3", "4", "5", "6", "7", "8", "9"}

\* Unicode decimal digits (category Nd) that are not ASCII.
UnicodeDecimalDigits == {"u0663"}

\* Characters of category No with the Digit property.
UnicodeOtherDigits == {"u00B2"}

\* What int() makes of one decimal digit character.
DigitValue(c) ==
    CASE c = "0" -> 0 [] c = "1" -> 1 [] c = "2" -> 2 [] c = "3" -> 3
      [] c = "4" -> 4 [] c = "5" -> 5 [] c = "6" -> 6 [] c = "7" -> 7
      [] c = "8" -> 8 [] c = "9" -> 9 [] c = "u0663" -> 3
      [] OTHER -> 0

\* int(s) of a string of decimal digits.
RECURSIVE IntOf(_)
IntOf(s) ==
    IF s = <<>> THEN 0
    ELSE 10 * IntOf(SubSeq(s, 1, Len(s) - 1)) + DigitValue(s[Len(s)])

\* All sequences over alphabet A of length at most n.
RECURSIVE SeqsUpTo(_, _)
SeqsUpTo(A, n) ==
    IF n = 0 THEN {<<>>}
    ELSE LET shorter == SeqsUpTo(A, n - 1)
         IN  shorter \cup {Append(s, c) : s \in shorter, c \in A}

(***************************************************************************)
(* validate_qid.                                                           *)
(***************************************************************************)
\* str.isdigit() of one character: ASCII digits, other decimal digits, and
\* the digit characters of category No.
IsDigitChar(c) ==
    c \in AsciiDigits \cup UnicodeDecimalDigits \cup UnicodeOtherDigits

\* str.isdigit(): non-empty and every character a digit.
StrIsDigit(s) == Len(s) > 0 /\ \A i \in 1..Len(s) : IsDigitChar(s[i])

\* qid.startswith("Q")
StartsWithQ(s) == Len(s) >= 1 /\ s[1] = "Q"

validate_qid(qid) ==
    IF ~StartsWithQ(qid) \/ ~StrIsDigit(Tail(qid))
    THEN [status |-> "BadParameter", value |-> <<>>]
    ELSE [status |-> "returned", value |-> qid]

(***************************************************************************)
(* validate_date: datetime.strptime(date_str, "%Y-%m-%d").  The format     *)
(* compiles to the regular expression                                      *)
(*   (\d\d\d\d)-(1[0-2]|0[1-9]|[1-9])-(3[0-1]|[1-2]\d|0[1-9]|[1-9]| [1-9]) *)
(* matched at the start of the string; data left over after the match is   *)
(* an error, and so is a day the month does not have.                      *)
(***************************************************************************)
\* \d of a str pattern: any decimal digit, ASCII or not.
ReDigit(c) == c \in AsciiDigits \cup UnicodeDecimalDigits

Digits1to9 == AsciiDigits \ {"0"}

\* %Y
ReYear(s) == Len(s) = 4 /\ \A i \in 1..4 : ReDigit(s[i])

\* %m
ReMonth(s) ==
    \/ Len(s) = 2 /\ s[1] = "1" /\ s[2] \in {"0", "1", "2"}
    \/ Len(s) = 2 /\ s[1] = "0" /\ s[2] \in Digits1to9
    \/ Len(s) = 1 /\ s[1] \in Digits1to9

\* %d
ReDay(s) ==
    \/ Len(s) = 2 /\ s[1] = "3" /\ s[2] \in {"0", "1"}
    \/ Len(s) = 2 /\ s[1] \in {"1", "2"} /\ ReDigit(s[2])
    \/ Len(s) = 2 /\ s[1] = "0" /\ s[2] \in Digits1to9
    \/ Len(s) = 1 /\ s[1] \in Digits1to9
    \/ Len(s) = 2 /\ s[1] = " " /\ s[2] \in Digits1to9

\* int() of a matched field; the day may carry a leading space.
FieldInt(s) == IF Len(s) >= 1 /\ s[1] = " " THEN IntOf(Tail(s)) ELSE IntOf(s)

\* calendar.isleap
IsLeap(y) == y % 4 = 0 /\ (y % 100 # 0 \/ y % 400 = 0)

DaysInMonth(y, m) ==
    IF m = 2 THEN (IF IsLeap(y) THEN 29 ELSE 28)
    ELSE IF m \in {4, 6, 9, 11} THEN 30 ELSE 31

\* datetime(year, month, day) raises ValueError outside this range.
DateInRange(y, m, d) ==
    /\ y >= 1 /\ y <= 9999
    /\ m >= 1 /\ m <= 12
    /\ d >= 1 /\ d <= DaysInMonth(y, m)

\* The positions of the hyphens of s.
HyphenPositions(s) == {i \in 1..Len(s) : s[i] = "-"}

\* The ways s splits into year "-" month "-" day as the pattern demands:
\* <<i, j>> are the positions of the two hyphens.
StrptimeSplits(s) ==
    {ij \in HyphenPositions(s) \X HyphenPositions(s) :
        /\ ij[1] < ij[2]
        /\ ReYear(SubSeq(s, 1, ij[1] - 1))
        /\ ReMonth(SubSeq(s, ij[1] + 1, ij[2] - 1))
        /\ ReDay(SubSeq(s, ij[2] + 1, Len(s)))}

\* strptime succeeds.
Strptime(s) ==
    \E ij \in StrptimeSplits(s) :
        DateInRange(FieldInt(SubSeq(s, 1, ij[1] - 1)),
                    FieldInt(SubSeq(s, ij[1] + 1, ij[2] - 1)),
                    FieldInt(SubSeq(s, ij[2] + 1, Len(s))))

validate_date(date_str) ==
    IF Strptime(date_str)
    THEN [status |-> "returned", value |-> date_str]
    ELSE [status |-> "BadParameter", value |-> <<>>]

(***************************************************************************)
(* load_config.                                                            *)
(***************************************************************************)
\* Python truthiness of an optional string: None and "" are false.
Truthy(v) == v # None /\ v # ""

\* a or b
Or2(a, b) == IF Truthy(a) THEN a ELSE b

\* a or b or c
Or3(a, b, c) == Or2(a, Or2(b, c))

CONFIG_FILE == "config"
DEFAULT_SESSION_FILE == "~/.wikidata_session.json"

\* A config file on disk.  A key the [bot] section lacks is None.
ConfigContent(exists, parses, has_bot, u, p, sf) ==
    [exists |-> exists, parses |-> parses, has_bot |-> has_bot,
     username |-> u, password |-> p, session_file |-> sf]

NoConfigFile == ConfigContent(FALSE, TRUE, FALSE, None, None, None)

\* config_file or os.getenv("WIKIDATA_CONFIG_FILE") or CONFIG_FILE
ConfigFilePath(config_file, env) ==
    Or3(config_file, env.WIKIDATA_CONFIG_FILE, CONFIG_FILE)

\* ConfigParser.read(path) opens the file itself and ignores a file it
\* cannot open: nothing in the try block raises FileNotFoundError.
ConfigReadRaisesFileNotFound(file) == FALSE

\* What ConfigParser holds after read(): nothing when the file is missing.
ConfigHasBot(file) == file.exists /\ file.has_bot

ConfigResult(status, u, p, sf, printed) ==
    [status |-> status, bot_username |-> u, bot_password |-> p,
     session_file |-> sf, printed |-> printed]

\* Lines 67-121: the config file branch.
load_config_from_file(session_file, config_file, env, files) ==
    LET file == files[ConfigFilePath(config_file, env)]
    IN  IF ConfigReadRaisesFileNotFound(file)
        THEN ConfigResult("exit1", None, None, None, "usage_hint")
        ELSE IF file.exists /\ ~file.parses
        THEN ConfigResult("exit1", None, None, None, "config_error")
        ELSE IF ~ConfigHasBot(file)
        THEN ConfigResult("exit1", None, None, None, "config_error")
        ELSE IF file.username = None \/ file.password = None
        THEN ConfigResult("exit1", None, None, None, "config_error")
        ELSE ConfigResult("ok", file.username, file.password,
                          Or3(session_file, env.WIKIDATA_SESSION_FILE,
                              file.session_file),
                          "nothing")

\* The environment branch is tried before the command line one.
load_config_env_first(username, password, session_file, config_file, env, files) ==
    IF Truthy(env.WIKIDATA_BOT_USERNAME) /\ Truthy(env.WIKIDATA_BOT_PASSWORD)
    THEN ConfigResult("ok", env.WIKIDATA_BOT_USERNAME,
                      env.WIKIDATA_BOT_PASSWORD,
                      Or2(session_file, env.WIKIDATA_SESSION_FILE), "nothing")
    ELSE IF Truthy(username) /\ Truthy(password)
    THEN ConfigResult("ok", username, password, session_file, "nothing")
    ELSE load_config_from_file(session_file, config_file, env, files)

\* A session_file that is not set is None in the result (the dict has no
\* such key); "" is not set either.
load_config(username, password, session_file, config_file, env, files) ==
    IF Truthy(username) /\ Truthy(password)
    THEN ConfigResult("ok", username, password,
                      IF Truthy(session_file) THEN session_file ELSE None,
                      "nothing")
    ELSE IF Truthy(env.WIKIDATA_BOT_USERNAME) /\ Truthy(env.WIKIDATA_BOT_PASSWORD)
    THEN ConfigResult("ok", env.WIKIDATA_BOT_USERNAME,
                      env.WIKIDATA_BOT_PASSWORD,
                      LET sf == Or2(session_file, env.WIKIDATA_SESSION_FILE)
                      IN  IF Truthy(sf) THEN sf ELSE None,
                      "nothing")
    ELSE LET r == load_config_from_file(session_file, config_file, env, files)
         IN  [r EXCEPT !.session_file =
                  IF Truthy(r.session_file) THEN r.session_file ELSE None]

NoConfig == ConfigResult("none", None, None, None, "nothing")

(***************************************************************************)
(* JSON as save_session and load_session use it: json.dump(obj, f,         *)
(* indent=2) and json.load(f).  A text is a sequence of characters; a JSON *)
(* value is a record of its type, its characters when it is a string, and  *)
(* its members in insertion order when it is an object (or its elements,   *)
(* with empty keys, when it is an array).  Characters that have no         *)
(* printable form are written by their code point: "u0008" is BACKSPACE,   *)
(* "u000C" is FORM FEED, "u00E9" is LATIN SMALL LETTER E WITH ACUTE.       *)
(***************************************************************************)
QUOTE == "\""
BACKSLASH == "\\"
LF == "\n"

\* A byte that is not valid in the encoding the file is opened with.
InvalidByte == "xFF"

JStr(s) == [type |-> "str", str |-> s, items |-> <<>>]

JDict(items) == [type |-> "dict", str |-> <<>>, items |-> items]

JList(items) == [type |-> "list", str |-> <<>>, items |-> items]

JAtom(type) == [type |-> type, str |-> <<>>, items |-> <<>>]

Member(key, value) == [key |-> key, value |-> value]

\* dict[key] = value: a key that is there keeps its place.
Put(items, key, value) ==
    IF \E i \in 1..Len(items) : items[i].key = key
    THEN [i \in 1..Len(items) |->
             IF items[i].key = key THEN Member(key, value) ELSE items[i]]
    ELSE Append(items, Member(key, value))

\* The encoder's escape of one character of a string (ensure_ascii).
EscapeChar(c) ==
    IF c = QUOTE THEN <<BACKSLASH, QUOTE>>
    ELSE IF c = BACKSLASH THEN <<BACKSLASH, BACKSLASH>>
    ELSE IF c = LF THEN <<BACKSLASH, "n">>
    ELSE IF c = "\t" THEN <<BACKSLASH, "t">>
    ELSE IF c = "\r" THEN <<BACKSLASH, "r">>
    ELSE IF c = "u0008" THEN <<BACKSLASH, "b">>
    ELSE IF c = "u000C" THEN <<BACKSLASH, "f">>
    ELSE IF c = "u00E9" THEN <<BACKSLASH, "u", "0", "0", "e", "9">>
    ELSE <<c>>

\* Quotes and backslashes are written as they are.
EscapeNothing(s) == s

RECURSIVE Escape(_)
Escape(s) ==
    IF s = <<>> THEN <<>> ELSE EscapeChar(Head(s)) \o Escape(Tail(s))

\* The encoder's string: py_encode_basestring_ascii.
DumpString(s) == <<QUOTE>> \o Escape(s) \o <<QUOTE>>

\* A newline and the indentation of a nesting level (indent=2).
RECURSIVE Spaces(_)
Spaces(n) == IF n = 0 THEN <<>> ELSE <<" ">> \o Spaces(n - 1)

NewlineIndent(level) == <<LF>> \o Spaces(2 * level)

\* json.dump(value, f, indent=2) of a value nested at a level: the members
\* of an object that is not empty stand on lines of their own, separated
\* by "," and written key, ": ", value.
RECURSIVE DumpValue(_, _)
RECURSIVE DumpMembers(_, _, _)
DumpMembers(items, level, is_dict) ==
    IF items = <<>> THEN <<>>
    ELSE NewlineIndent(level)
         \o (IF is_dict THEN DumpString(Head(items).key) \o <<":", " ">>
             ELSE <<>>)
         \o DumpValue(Head(items).value, level)
         \o (IF Tail(items) = <<>> THEN <<>> ELSE <<",">>)
         \o DumpMembers(Tail(items), level, is_dict)

DumpValue(v, level) ==
    IF v.type = "str" THEN DumpString(v.str)
    ELSE IF v.type = "dict"
    THEN (IF v.items = <<>> THEN <<"{", "}">>
          ELSE <<"{">> \o DumpMembers(v.items, level + 1, TRUE)
               \o NewlineIndent(level) \o <<"}">>)
    ELSE IF v.type = "list"
    THEN (IF v.items = <<>> THEN <<"[", "]">>
          ELSE <<"[">> \o DumpMembers(v.items, level + 1, FALSE)
               \o NewlineIndent(level) \o <<"]">>)
    ELSE IF v.type = "null" THEN <<"n", "u", "l", "l">>
    ELSE IF v.type = "true" THEN <<"t", "r", "u", "e">>
    ELSE IF v.type = "false" THEN <<"f", "a", "l", "s", "e">>
    ELSE <<"0">>

json_dump(obj) == DumpValue(obj, 0)

\* The decoder.  A parse result: whether it succeeded, the value, and the
\* position after it.
Parsed(ok, value, pos) == [ok |-> ok, value |-> value, pos |-> pos]

ParseError == Parsed(FALSE, JAtom("null"), 0)

\* The character at a position, "EOF" past the end.
At(t, i) == IF i \in 1..Len(t) THEN t[i] ELSE "EOF"

Whitespace == {" ", LF, "\t", "\r"}

\* t[i..j], empty when the text ends before j.
Slice(t, i, j) == IF j <= Len(t) THEN SubSeq(t, i, j) ELSE <<>>

\* The first position from i on that holds no whitespace.
SkipWhitespace(t, i) ==
    LET rest == {j \in i..Len(t) : t[j] \notin Whitespace}
    IN  IF rest = {} THEN Len(t) + 1
        ELSE CHOOSE j \in rest : \A k \in rest : j <= k

HexDigits == AsciiDigits \cup {"a", "b", "c", "d", "e", "f",
                               "A", "B", "C", "D", "E", "F"}

\* The character of a \uXXXX escape.
CharOfHex(h) ==
    IF h \in {<<"0", "0", "e", "9">>, <<"0", "0", "E", "9">>} THEN "u00E9"
    ELSE IF h = <<"0", "0", "2", "2">> THEN QUOTE
    ELSE IF h \in {<<"0", "0", "5", "c">>, <<"0", "0", "5", "C">>} THEN BACKSLASH
    ELSE IF h \in {<<"0", "0", "0", "a">>, <<"0", "0", "0", "A">>} THEN LF
    ELSE IF h = <<"0", "0", "6", "1">> THEN "a"
    ELSE "uXXXX"

\* py_scanstring from the position after the opening quote (strict): up
\* to the closing quote, with the escapes undone; a control character or
\* an escape that is none ends the parse.
RECURSIVE ScanString(_, _, _)
ScanString(t, i, acc) ==
    LET c == At(t, i)
        e == At(t, i + 1)
    IN  IF c = "EOF" \/ c \in {LF, "\t", "\r", "u0008", "u000C"} THEN ParseError
        ELSE IF c = QUOTE THEN Parsed(TRUE, JStr(acc), i + 1)
        ELSE IF c # BACKSLASH THEN ScanString(t, i + 1, Append(acc, c))
        ELSE IF e \in {QUOTE, BACKSLASH, "/"}
        THEN ScanString(t, i + 2, Append(acc, e))
        ELSE IF e = "n" THEN ScanString(t, i + 2, Append(acc, LF))
        ELSE IF e = "t" THEN ScanString(t, i + 2, Append(acc, "\t"))
        ELSE IF e = "r" THEN ScanString(t, i + 2, Append(acc, "\r"))
        ELSE IF e = "b" THEN ScanString(t, i + 2, Append(acc, "u0008"))
        ELSE IF e = "f" THEN ScanString(t, i + 2, Append(acc, "u000C"))
        ELSE IF e = "u" /\ \A k \in 2..5 : At(t, i + k) \in HexDigits
        THEN ScanString(t, i + 6, Append(acc, CharOfHex(SubSeq(t, i + 2, i + 5))))
        ELSE ParseError

\* The end of the digits that start at i.
RECURSIVE DigitsEnd(_, _)
DigitsEnd(t, i) == IF At(t, i) \in AsciiDigits THEN DigitsEnd(t, i + 1) ELSE i

\* NUMBER_RE, (-?(?:0|[1-9]\d*))(\.\d+)?([eE][-+]?\d+)?, matched at i: the
\* position after the number, 0 when there is none.
NumberEnd(t, i) ==
    LET start == IF At(t, i) = "-" THEN i + 1 ELSE i
        int_end == IF At(t, start) = "0" THEN start + 1
                   ELSE IF At(t, start) \in AsciiDigits THEN DigitsEnd(t, start)
                   ELSE 0
        frac_end == IF At(t, int_end) = "." /\ At(t, int_end + 1) \in AsciiDigits
                    THEN DigitsEnd(t, int_end + 1)
                    ELSE int_end
        exp_start == IF At(t, frac_end + 1) \in {"-", "+"} THEN frac_end + 2
                     ELSE frac_end + 1
    IN  IF int_end = 0 THEN 0
        ELSE IF At(t, frac_end) \in {"e", "E"} /\ At(t, exp_start) \in AsciiDigits
        THEN DigitsEnd(t, exp_start)
        ELSE frac_end

\* The constants the scanner takes for numbers: the position after one.
ConstantEnd(t, i) ==
    IF Slice(t, i, i + 2) = <<"N", "a", "N">> THEN i + 3
    ELSE IF Slice(t, i, i + 7) = <<"I", "n", "f", "i", "n", "i", "t", "y">>
    THEN i + 8
    ELSE IF Slice(t, i, i + 8) = <<"-", "I", "n", "f", "i", "n", "i", "t", "y">>
    THEN i + 9
    ELSE 0

\* scan_once at position i, which holds no whitespace.
RECURSIVE ScanOnce(_, _)
RECURSIVE ScanMembers(_, _, _)
RECURSIVE ScanElements(_, _, _)

\* JSONObject past "{": the members from position i on, which holds the
\* quote of a key.
ScanMembers(t, i, acc) ==
    IF At(t, i) # QUOTE THEN ParseError
    ELSE LET key == ScanString(t, i + 1, <<>>)
             colon == SkipWhitespace(t, key.pos)
             value == ScanOnce(t, SkipWhitespace(t, colon + 1))
             after == SkipWhitespace(t, value.pos)
         IN  IF ~key.ok \/ At(t, colon) # ":" THEN ParseError
             ELSE IF ~value.ok THEN ParseError
             ELSE IF At(t, after) = "}"
             THEN Parsed(TRUE, JDict(Put(acc, key.value.str, value.value)),
                         after + 1)
             ELSE IF At(t, after) = ","
             THEN ScanMembers(t, SkipWhitespace(t, after + 1),
                              Put(acc, key.value.str, value.value))
             ELSE ParseError

\* JSONArray past "[": the elements from position i on.
ScanElements(t, i, acc) ==
    LET value == ScanOnce(t, i)
        after == SkipWhitespace(t, value.pos)
    IN  IF ~value.ok THEN ParseError
        ELSE IF At(t, after) = "]"
        THEN Parsed(TRUE, JList(Append(acc, Member(<<>>, value.value))),
                    after + 1)
        ELSE IF At(t, after) = ","
        THEN ScanElements(t, SkipWhitespace(t, after + 1),
                          Append(acc, Member(<<>>, value.value)))
        ELSE ParseError

ScanOnce(t, i) ==
    LET c == At(t, i)
    IN  IF c = QUOTE THEN ScanString(t, i + 1, <<>>)
        ELSE IF c = "{"
        THEN (IF At(t, SkipWhitespace(t, i + 1)) = "}"
              THEN Parsed(TRUE, JDict(<<>>), SkipWhitespace(t, i + 1) + 1)
              ELSE ScanMembers(t, SkipWhitespace(t, i + 1), <<>>))
        ELSE IF c = "["
        THEN (IF At(t, SkipWhitespace(t, i + 1)) = "]"
              THEN Parsed(TRUE, JList(<<>>), SkipWhitespace(t, i + 1) + 1)
              ELSE ScanElements(t, SkipWhitespace(t, i + 1), <<>>))
        ELSE IF Slice(t, i, i + 3) = <<"n", "u", "l", "l">>
        THEN Parsed(TRUE, JAtom("null"), i + 4)
        ELSE IF Slice(t, i, i + 3) = <<"t", "r", "u", "e">>
        THEN Parsed(TRUE, JAtom("true"), i + 4)
        ELSE IF Slice(t, i, i + 4) = <<"f", "a", "l", "s", "e">>
        THEN Parsed(TRUE, JAtom("false"), i + 5)
        ELSE IF NumberEnd(t, i) # 0
        THEN Parsed(TRUE, JAtom("number"), NumberEnd(t, i))
        ELSE IF ConstantEnd(t, i) # 0
        THEN Parsed(TRUE, JAtom("number"), ConstantEnd(t, i))
        ELSE ParseError

\* json.loads(text): the value, or JSONDecodeError when there is none or
\* data is left after it.
json_loads(t) ==
    LET r == ScanOnce(t, SkipWhitespace(t, 1))
    IN  IF r.ok /\ SkipWhitespace(t, r.pos) = Len(t) + 1
        THEN [status |-> "value", value |-> r.value]
        ELSE [status |-> "JSONDecodeError", value |-> JAtom("null")]

\* f.read() of a file opened in text mode.
Decodes(t) == \A i \in 1..Len(t) : t[i] # InvalidByte

\* json.load(f)
json_load(t) ==
    IF ~Decodes(t)
    THEN [status |-> "UnicodeDecodeError", value |-> JAtom("null")]
    ELSE json_loads(t)

(***************************************************************************)
(* The session file: save_session and load_session.                        *)
(***************************************************************************)
Mode0600 == 384

\* The mode open(path, "w") gives a file it creates: 0666 masked by the
\* process umask (022 gives 0644, 077 gives 0600).
NewFileModes == {420, 384}

\* A file at a path: whether it is there, its content and its mode.
SessionFile(exists, text, mode) ==
    [exists |-> exists, text |-> text, mode |-> mode]

NoSessionFile == SessionFile(FALSE, <<>>, 0)

\* A cookie of a cookie jar, and dict(session.cookies).
Cookie(name, value) == Member(name, JStr(value))

\* {"cookies": dict(session.cookies)}
SessionData(cookies) ==
    JDict(<<Member(<<"c", "o", "o", "k", "i", "e", "s">>, JDict(cookies))>>)

\* with open(session_file_path, "w") as f: json.dump(session_data, f, indent=2)
\* An existing file keeps its mode; a new one gets the umask's.
save_session_write(file, session_data, new_mode) ==
    SessionFile(TRUE, json_dump(session_data),
                IF file.exists THEN file.mode ELSE new_mode)

\* The chmod is left out.
save_session_no_chmod(file) == file

\* session_file_path.chmod(0o600)
save_session_chmod(file) == [file EXCEPT !.mode = Mode0600]

\* dict.get(key, {}) of an object's members.
Get(items, key) ==
    IF \E i \in 1..Len(items) : items[i].key = key
    THEN (CHOOSE m \in {items[i] : i \in 1..Len(items)} : m.key = key).value
    ELSE JDict(<<>>)

LoadResult(status, truthy, cookies) ==
    [status |-> status, truthy |-> truthy, cookies |-> cookies]

\* load_session: the dict read, or None; with it whether the dict is true
\* (not empty) and session_data.get("cookies", {}) (of a member that is an
\* object).  A file whose bytes are not text raises UnicodeDecodeError,
\* which the except clause does not name.
load_session(file) ==
    IF ~file.exists THEN LoadResult("None", FALSE, <<>>)
    ELSE LET r == json_load(file.text)
         IN  IF r.status = "UnicodeDecodeError"
             THEN LoadResult("raise", FALSE, <<>>)
             ELSE IF r.status = "JSONDecodeError"
             THEN LoadResult("None", FALSE, <<>>)
             ELSE IF r.value.type = "dict"
             THEN LoadResult("dict", r.value.items # <<>>,
                             Get(r.value.items,
                                 <<"c", "o", "o", "k", "i", "e", "s">>).items)
             ELSE LoadResult("None", FALSE, <<>>)

(***************************************************************************)
(* The API client.  A response is what the server (or whatever answers in  *)
(* its place) sends back: its kind is the JSON shape of the body, its body *)
(* names the content an object carries.                                    *)
(***************************************************************************)
Response(kind, body) == [kind |-> kind, body |-> body]

FailureKinds == {"error_object", "not_json", "list", "number", "no_response"}

Failures == {Response(k, "none") : k \in FailureKinds}

\* "error" in data: a number, a boolean and null have no members to look
\* through (TypeError); a string is searched for the substring, a list for
\* the element, an object for the key.  The body of a string or list tells
\* whether "error" is in it.
ErrorIn(resp) ==
    IF resp.kind \in {"number", "true", "false", "null"} THEN "TypeError"
    ELSE IF resp.kind = "error_object" THEN "yes"
    ELSE IF resp.kind \in {"string", "list"} /\ resp.body = "error" THEN "yes"
    ELSE "no"

\* Lines 234-249: what wikidata_get makes of a response.  data['error'] of
\* a string or a list is a TypeError.
wikidata_get(resp) ==
    IF resp.kind = "no_response" THEN "RequestException"
    ELSE IF resp.kind = "not_json" THEN "JSONDecodeError"
    ELSE IF ErrorIn(resp) = "TypeError" THEN "TypeError"
    ELSE IF ErrorIn(resp) = "yes"
    THEN (IF resp.kind = "error_object" THEN "ValueError:api" ELSE "TypeError")
    ELSE IF resp.kind = "object" THEN "return"
    ELSE "ValueError:type"

\* An API error is not raised.
wikidata_post_ignoring_errors(resp) ==
    IF resp.kind = "no_response" THEN "RequestException"
    ELSE IF resp.kind = "not_json" THEN "JSONDecodeError"
    ELSE IF ErrorIn(resp) = "TypeError" THEN "TypeError"
    ELSE IF resp.kind \in {"object", "error_object"} THEN "return"
    ELSE "ValueError:type"

\* Lines 256-271: the same for wikidata_post.
wikidata_post(resp) ==
    IF resp.kind = "no_response" THEN "RequestException"
    ELSE IF resp.kind = "not_json" THEN "JSONDecodeError"
    ELSE IF ErrorIn(resp) = "TypeError" THEN "TypeError"
    ELSE IF ErrorIn(resp) = "yes"
    THEN (IF resp.kind = "error_object" THEN "ValueError:api" ELSE "TypeError")
    ELSE IF resp.kind = "object" THEN "return"
    ELSE "ValueError:type"

\* What wikidata_get / wikidata_post print before raising.
ClientPrints(outcome) ==
    IF outcome = "JSONDecodeError" THEN <<"Failed to parse JSON response">>
    ELSE IF outcome = "ValueError:api" THEN <<"API Error">>
    ELSE <<>>

\* except (requests.RequestException, ValueError): json.JSONDecodeError is
\* a ValueError, TypeError is not.
ProbeCatches(outcome) ==
    outcome \in {"RequestException", "JSONDecodeError", "ValueError:api",
                 "ValueError:type"}

\* The property a request names: P348 (software version) in
\* add_version_statement's wbcreateclaim, P577 (publication date) in its
\* wbsetqualifier.
PropertyOf(action) ==
    IF action = "wbcreateclaim" THEN "P348"
    ELSE IF action = "wbsetqualifier" THEN "P577"
    ELSE None

\* One HTTP request and the response it got, as the log keeps them.
Call(action, claim, rank, value, resp) ==
    [action |-> action, property |-> PropertyOf(action), claim |-> claim,
     rank |-> rank, value |-> value, resp |-> resp]

\* Whether the server carried a request out, given what it answered: it did
\* when it answers with the result, it did not when it answers with an
\* error, and a reply that is neither leaves both open.
Applied(resp) ==
    IF resp.kind = "object" THEN {TRUE}
    ELSE IF resp.kind = "error_object" THEN {FALSE}
    ELSE BOOLEAN

(***************************************************************************)
(* The entity's P348 statements on the server.                             *)
(***************************************************************************)
Statement(id, rank, snaktype, value, qualifier) ==
    [id |-> id, rank |-> rank, snaktype |-> snaktype, value |-> value,
     qualifier |-> qualifier]

OldVersion == <<"1", ".", "0">>
NewVersion == <<"2", ".", "0">>
NewClaimId == "new"
OtherClaimId == "new2"
OtherVersion == <<"3", ".", "0">>

StatementId(i) == CASE i = 1 -> "s1" [] i = 2 -> "s2" [] i = 3 -> "s3"
                    [] i = 4 -> "s4" [] OTHER -> "s5"

StatementKinds == {<<"preferred", "value">>, <<"preferred", "novalue">>,
                   <<"normal", "value">>, <<"deprecated", "value">>}

StatementLists ==
    UNION {{[i \in 1..n |->
                Statement(StatementId(i), k[i][1], k[i][2],
                          IF k[i][2] = "value" THEN OldVersion ELSE <<>>,
                          <<>>)] : k \in [1..n -> StatementKinds]}
           : n \in 0..MaxStatements}

\* wbsetclaimrank
SetClaimRank(stmts, id, rank) ==
    [i \in 1..Len(stmts) |->
        IF stmts[i].id = id THEN [stmts[i] EXCEPT !.rank = rank] ELSE stmts[i]]

\* The server gives every claim it creates an id of its own.
FreshClaimId(stmts) ==
    IF \E i \in 1..Len(stmts) : stmts[i].id = NewClaimId THEN OtherClaimId
    ELSE NewClaimId

\* wbcreateclaim: the new statement has rank normal.
CreateClaim(stmts, value) ==
    Append(stmts, Statement(FreshClaimId(stmts), "normal", "value", value, <<>>))

\* wbsetqualifier
SetQualifier(stmts, id, time) ==
    [i \in 1..Len(stmts) |->
        IF stmts[i].id = id THEN [stmts[i] EXCEPT !.qualifier = time]
        ELSE stmts[i]]

\* The sign is left out.
QualifierTimeWithoutSign(release_date) ==
    release_date \o <<"T", "0", "0", ":", "0", "0", ":", "0", "0", "Z">>

\* f"+{release_date}T00:00:00Z"
QualifierTime(release_date) ==
    <<"+">> \o release_date \o <<"T", "0", "0", ":", "0", "0", ":", "0", "0", "Z">>

\* "precision": 11
Precision == <<"1", "1">>

\* The time value of the qualifier, written time/precision; its other
\* members are constants.
QualifierValue(release_date) ==
    QualifierTime(release_date) \o <<"/">> \o Precision

\* [s for s in version_statements if s.get("rank") == "preferred"]
PreferredIndexes(stmts) == {i \in 1..Len(stmts) : stmts[i].rank = "preferred"}

(***************************************************************************)
(* The invocation: its inputs.                                             *)
(***************************************************************************)
Argv(qid, version, release_date, dry_run, username, password, session_file, config_file) ==
    [qid |-> qid, version |-> version, release_date |-> release_date,
     dry_run |-> dry_run, username |-> username, password |-> password,
     session_file |-> session_file, config_file |-> config_file]

Environ(u, p, sf, cf) ==
    [WIKIDATA_BOT_USERNAME |-> u, WIKIDATA_BOT_PASSWORD |-> p,
     WIKIDATA_SESSION_FILE |-> sf, WIKIDATA_CONFIG_FILE |-> cf]

ConfigPaths == {CONFIG_FILE, "cli.cfg", "env.cfg"}
SessionPaths == {DEFAULT_SESSION_FILE, "cli.json", "env.json", "cfg.json"}

\* No cookies.
NoCookies == <<>>

NoSession == [cookies |-> NoCookies, source |-> "none"]

\* What an invocation has of its own: its arguments, its position, its
\* session, what it has read of the entity, what it printed, how it ended.
\* The entity on the server and the files are shared.
Invocation(at, args, sess, stmts, i, id, printed, code, fail) ==
    [pc |-> at, argv |-> args, session |-> sess, version_statements |-> stmts,
     idx |-> i, claim_id |-> id, out |-> printed, exit_code |-> code,
     failure |-> fail]

\* One invocation runs alone.
NoPeer ==
    Invocation("none", Argv(<<>>, <<>>, <<>>, FALSE, None, None, None, None),
               NoSession, <<>>, 0, None, <<>>, -1, "none")

\* Nothing of the run has happened yet.
Idle ==
    /\ peer = NoPeer
    /\ pc = "click"
    /\ config = NoConfig
    /\ session_file_path = None
    /\ session = NoSession
    /\ version_statements = <<>>
    /\ idx = 0
    /\ claim_id = None
    /\ calls = <<>>
    /\ file_log = <<>>
    /\ out = <<>>
    /\ exit_code = -1
    /\ failure = "none"

NoFunction ==
    /\ fn_in = <<>>
    /\ fn_out = [status |-> "unused", value |-> <<>>]

QidSamples == {<<"Q", "1">>, <<"q", "1">>}

DateSamples == {<<"2", "0", "2", "4", "-", "0", "6", "-", "0", "1">>,
                <<"2", "0", "2", "4", "-", "0", "2", "-", "3", "0">>}

\* Credential sources of the runs: <<--username, --password, environment
\* username, environment password, the config file at CONFIG_FILE>>.
CompleteConfig == ConfigContent(TRUE, TRUE, TRUE, "cfgU", "cfgP", None)

CredentialSamples ==
    {<<"cliU", "cliP", None, None, NoConfigFile>>,
     <<None, None, "envU", "envP", CompleteConfig>>,
     <<None, None, None, None, CompleteConfig>>,
     <<None, None, None, None, NoConfigFile>>,
     <<"cliU", None, None, None,
       ConfigContent(TRUE, TRUE, TRUE, "cfgU", None, None)>>}

\* The cookies of an earlier login, and those a login of this run gets.
OldCookies == <<Cookie(<<"s">>, <<"o">>)>>
NewCookies == <<Cookie(<<"s">>, <<"n">>)>>

SessionText(cookies) == json_dump(SessionData(cookies))

\* File contents that are not a JSON object: an empty file, a truncated
\* session record, a list, a string, a number, null, and bytes that are
\* not text.
NotObjectTexts ==
    {<<>>,
     SubSeq(SessionText(OldCookies), 1, 14),
     <<"[", "]">>,
     <<QUOTE, "s", QUOTE>>,
     <<"1">>,
     <<"n", "u", "l", "l">>,
     <<InvalidByte>>,
     SubSeq(SessionText(OldCookies), 1, 20) \o <<InvalidByte>>}

SessionFileSamples ==
    {NoSessionFile,
     SessionFile(TRUE, SessionText(OldCookies), 384),
     SessionFile(TRUE, SessionText(OldCookies), 420),
     SessionFile(TRUE, <<"{", "}">>, 420),
     SessionFile(TRUE, SubSeq(SessionText(OldCookies), 1, 14), 420),
     SessionFile(TRUE, <<"[", "]">>, 420),
     SessionFile(TRUE, <<InvalidByte>>, 420)}

Init ==
    /\ Idle
    /\ NoFunction
    /\ \E q \in QidSamples, d \in DateSamples, dry \in BOOLEAN,
          c \in CredentialSamples, sf \in {None, "cli.json"} :
          /\ argv = Argv(q, NewVersion, d, dry, c[1], c[2], sf, None)
          /\ environ = Environ(c[3], c[4], None, None)
          /\ config_files = [p \in ConfigPaths |->
                                IF p = CONFIG_FILE THEN c[5] ELSE NoConfigFile]
    /\ \E f \in SessionFileSamples :
          session_files = [p \in SessionPaths |-> f]
    /\ remote \in StatementLists

(***************************************************************************)
(* The invocation: how it ends.                                            *)
(***************************************************************************)
\* Every way out ends the process with status 1.
exit_status_always_one(why) == IF why \in {"none", "cancelled"} THEN 0 ELSE 1

\* The exit status of the process by the way main is left:
\*   "validation": click.BadParameter out of a callback; it is a
\*                 click.UsageError, which click reports and turns into
\*                 sys.exit(2);
\*   "config":     sys.exit(1) in load_config;
\*   "exception":  an exception raised again by main, which ends the
\*                 interpreter with a traceback and status 1;
\*   "cancelled":  KeyboardInterrupt caught by main, which then returns;
\*   "none":       main returns.
exit_status(why) ==
    IF why = "validation" THEN 2
    ELSE IF why \in {"config", "exception"} THEN 1
    ELSE 0

\* The process ends.
Exit(why, printed) ==
    /\ pc' = "exited"
    /\ exit_code' = exit_status(why)
    /\ failure' = why
    /\ out' = out \o printed

\* An exception reaches main's "except Exception": it is printed and raised
\* again.
Raise(printed) == Exit("exception", printed \o <<"Error">>)

(***************************************************************************)
(* click's parsing of the command line: the callbacks of the arguments,    *)
(* in the order of their declaration.                                      *)
(***************************************************************************)
click_callbacks(a) ==
    IF validate_qid(a.qid).status = "BadParameter" THEN "BadParameter"
    ELSE IF validate_date(a.release_date).status = "BadParameter"
    THEN "BadParameter"
    ELSE "ok"

click_parse ==
    /\ pc = "click"
    /\ IF click_callbacks(argv) = "ok"
       THEN /\ pc' = "load_config"
            /\ UNCHANGED <<exit_code, failure, out>>
       ELSE Exit("validation", <<"usage_error">>)
    /\ UNCHANGED <<argv, environ, config_files, session_files, remote, config,
                   session_file_path, session, version_statements, idx,
                   claim_id, calls, file_log, fn_in, fn_out, peer>>

(***************************************************************************)
(* get_authenticated_session.                                              *)
(***************************************************************************)
\* Lines 193-196: load_config, then the session file path.  sys.exit(1)
\* raises SystemExit, which main's "except Exception" lets through.
load_config_step ==
    /\ pc = "load_config"
    /\ LET r == load_config(argv.username, argv.password, argv.session_file,
                            argv.config_file, environ, config_files)
       IN  IF r.status = "ok"
           THEN /\ config' = r
                /\ session_file_path' =
                       IF r.session_file = None THEN DEFAULT_SESSION_FILE
                       ELSE r.session_file
                /\ pc' = "load_session"
                /\ UNCHANGED <<exit_code, failure, out>>
           ELSE /\ Exit("config", <<r.printed>>)
                /\ UNCHANGED <<config, session_file_path>>
    /\ UNCHANGED <<argv, environ, config_files, session_files, remote,
                   session, version_statements, idx, claim_id, calls,
                   file_log, fn_in, fn_out, peer>>

FileOp(op, path) == [op |-> op, path |-> path]

\* Lines 199-204 and 218.
load_session_step ==
    /\ pc = "load_session"
    /\ LET r == load_session(session_files[session_file_path])
       IN  /\ file_log' = Append(file_log, FileOp("read", session_file_path))
           /\ IF r.status = "raise"
              THEN Raise(<<>>) /\ UNCHANGED session
              ELSE IF r.truthy
              THEN /\ session' = [cookies |-> r.cookies, source |-> "cached"]
                   /\ pc' = "probe"
                   /\ out' = Append(out, "Found existing session, testing...")
                   /\ UNCHANGED <<exit_code, failure>>
              ELSE /\ pc' = "get_login_token"
                   /\ out' = Append(out, "No existing session found, logging in...")
                   /\ UNCHANGED <<exit_code, failure, session>>
    /\ UNCHANGED <<argv, environ, config_files, session_files, remote, config,
                   session_file_path, version_statements, idx, claim_id,
                   calls, fn_in, fn_out, peer>>

UserinfoResponses ==
    {Response("object", b) : b \in {"name", "empty_name", "no_userinfo"}}
        \cup Failures

\* The probe's verdict is ignored: a fresh login follows in any case.
probe_next_always_login(resp) == "get_login_token"

\* Lines 206-216: where the probe of the cached session leads.
probe_next(resp) ==
    IF wikidata_get(resp) = "return"
    THEN (IF resp.body = "name" THEN "get_version_statements"
          ELSE "get_login_token")
    ELSE IF ProbeCatches(wikidata_get(resp)) THEN "get_login_token"
    ELSE "raise"

probe_step ==
    /\ pc = "probe"
    /\ \E resp \in UserinfoResponses :
          /\ calls' = Append(calls, Call("query:userinfo", None, None, <<>>, resp))
          /\ LET printed == ClientPrints(wikidata_get(resp))
             IN  IF probe_next(resp) = "raise" THEN Raise(printed)
                 ELSE /\ pc' = probe_next(resp)
                      /\ out' = out \o printed \o
                           (IF probe_next(resp) = "get_version_statements"
                            THEN <<"Session valid!">>
                            ELSE <<"Existing session invalid, logging in again...">>)
                      /\ UNCHANGED <<exit_code, failure>>
    /\ UNCHANGED <<argv, environ, config_files, session_files, remote, config,
                   session_file_path, session, version_statements, idx,
                   claim_id, file_log, fn_in, fn_out, peer>>

TokenResponses ==
    {Response("object", b) : b \in {"token", "nonstr_token"}} \cup Failures

\* get_login_token, lines 144-151.
get_login_token(resp) ==
    IF wikidata_get(resp) = "return" /\ resp.body = "token" THEN "return"
    ELSE IF wikidata_get(resp) = "return" THEN "ValueError:token"
    ELSE wikidata_get(resp)

\* Lines 156-160: a new Session, and get_login_token with it.
get_login_token_step ==
    /\ pc = "get_login_token"
    /\ session' = [cookies |-> NoCookies, source |-> "login"]
    /\ \E resp \in TokenResponses :
          /\ calls' = Append(calls, Call("query:tokens:login", None, None, <<>>, resp))
          /\ IF get_login_token(resp) = "return"
             THEN /\ pc' = "login"
                  /\ UNCHANGED <<exit_code, failure, out>>
             ELSE Raise(ClientPrints(wikidata_get(resp)))
    /\ UNCHANGED <<argv, environ, config_files, session_files, remote, config,
                   session_file_path, version_statements, idx, claim_id,
                   file_log, fn_in, fn_out, peer>>

LoginResponses ==
    {Response("object", b) : b \in {"Success", "Failed"}} \cup Failures

\* A login the server refused is taken for a login.
login_with_bot_password_ignoring_result(resp) ==
    IF resp.kind \in {"object", "error_object"} THEN "return"
    ELSE "RequestException"

\* Lines 171-183: what login_with_bot_password makes of the response to
\* its login request, which it sends with session.post itself.  data.get
\* of a string or a list is an AttributeError.
login_with_bot_password(resp) ==
    IF resp.kind = "no_response" THEN "RequestException"
    ELSE IF resp.kind = "not_json" THEN "JSONDecodeError"
    ELSE IF ErrorIn(resp) = "TypeError" THEN "TypeError"
    ELSE IF ErrorIn(resp) = "yes"
    THEN (IF resp.kind = "error_object" THEN "ValueError:login" ELSE "TypeError")
    ELSE IF resp.kind # "object" THEN "AttributeError"
    ELSE IF resp.body = "Success" THEN "return"
    ELSE "ValueError:login"

\* Lines 160-183 and 221.
login_step ==
    /\ pc = "login"
    /\ \E resp \in LoginResponses :
          /\ calls' = Append(calls, Call("login", None, None, <<>>, resp))
          /\ IF login_with_bot_password(resp) = "return"
             THEN /\ session' = [session EXCEPT !.cookies = NewCookies]
                  /\ pc' = "save_session_write"
                  /\ out' = Append(out, "Successfully logged in")
                  /\ UNCHANGED <<exit_code, failure>>
             ELSE /\ Raise(IF login_with_bot_password(resp) = "ValueError:login"
                           THEN <<"Login failed">> ELSE <<>>)
                  /\ UNCHANGED session
    /\ UNCHANGED <<argv, environ, config_files, session_files, remote, config,
                   session_file_path, version_statements, idx, claim_id,
                   file_log, fn_in, fn_out, peer>>

\* Lines 224-227 and 126-127: the file is opened for writing and the
\* session record dumped into it.
save_session_write_step ==
    /\ pc = "save_session_write"
    /\ \E m \in NewFileModes :
          session_files' =
              [session_files EXCEPT ![session_file_path] =
                  save_session_write(@, SessionData(session.cookies), m)]
    /\ file_log' = Append(file_log, FileOp("write", session_file_path))
    /\ pc' = "save_session_chmod"
    /\ UNCHANGED <<argv, environ, config_files, remote, config,
                   session_file_path, session, version_statements, idx,
                   claim_id, calls, out, exit_code, failure, fn_in, fn_out, peer>>

\* Line 128, and the return of line 227.
save_session_chmod_step ==
    /\ pc = "save_session_chmod"
    /\ session_files' =
           [session_files EXCEPT ![session_file_path] = save_session_chmod(@)]
    /\ file_log' = Append(file_log, FileOp("chmod", session_file_path))
    /\ pc' = "get_version_statements"
    /\ UNCHANGED <<argv, environ, config_files, remote, config,
                   session_file_path, session, version_statements, idx,
                   claim_id, calls, out, exit_code, failure, fn_in, fn_out, peer>>

(***************************************************************************)
(* main, from the read of the entity on.                                   *)
(***************************************************************************)
EntityResponses == {Response("object", "entity")} \cup Failures

OkResponses == {Response("object", "ok")} \cup Failures

MainVars == <<argv, environ, config_files, session_files, config,
              session_file_path, session, file_log, fn_in, fn_out, peer>>

\* Lines 449-456: a preferred statement whose mainsnak has no datavalue
\* raises KeyError when its value is printed.
PrintPreferredRaises(stmts) ==
    \E i \in PreferredIndexes(stmts) : stmts[i].snaktype # "value"

\* The dry_run flag is not consulted.
after_read_ignoring_dry_run(stmts, dry_run) ==
    IF PrintPreferredRaises(stmts) THEN "raise"
    ELSE IF stmts # <<>> THEN "downgrade_csrf"
    ELSE "add_csrf"

\* Lines 445-474: where main goes once it holds the list.
after_read(stmts, dry_run) ==
    IF PrintPreferredRaises(stmts) THEN "raise"
    ELSE IF dry_run THEN "dry_run_done"
    ELSE IF stmts # <<>> THEN "downgrade_csrf"
    ELSE "add_csrf"

\* What lines 434-474 print on that way.
AfterReadPrints(stmts, dry_run) ==
    (IF stmts # <<>> THEN <<"Found existing version statements">>
     ELSE <<"No existing version statements found">>)
    \o (IF PreferredIndexes(stmts) # {} THEN <<"Current preferred versions:">>
        ELSE <<>>)
    \o (IF after_read(stmts, dry_run) = "downgrade_csrf"
        THEN <<"Downgrading previous preferred versions to normal rank...">>
        ELSE IF after_read(stmts, dry_run) = "add_csrf"
        THEN <<"Adding new version statement...">>
        ELSE IF after_read(stmts, dry_run) = "dry_run_done"
        THEN <<"[DRY RUN] Would add version">>
        ELSE <<>>)

\* Lines 434-474 up to the first call that changes something:
\* get_version_statements (lines 279-290) and the branches of main.
get_version_statements_step ==
    /\ pc = "get_version_statements"
    /\ \E resp \in EntityResponses :
          /\ calls' = Append(calls, Call("wbgetentities", None, None, argv.qid, resp))
          /\ LET started == <<"Updating software version">>
                     \o (IF argv.dry_run THEN <<"--- DRY RUN MODE ---">> ELSE <<>>)
                     \o <<"Getting existing version statements...">>
             IN  IF wikidata_get(resp) # "return"
                 THEN /\ Raise(started \o ClientPrints(wikidata_get(resp)))
                      /\ UNCHANGED version_statements
                 ELSE /\ version_statements' = remote
                      /\ LET next == after_read(remote, argv.dry_run)
                             printed == started \o AfterReadPrints(remote, argv.dry_run)
                         IN  IF next = "raise" THEN Raise(printed)
                             ELSE IF next = "dry_run_done"
                             THEN Exit("none", printed)
                             ELSE /\ pc' = next
                                  /\ out' = out \o printed
                                  /\ UNCHANGED <<exit_code, failure>>
    /\ UNCHANGED <<remote, idx, claim_id>>
    /\ UNCHANGED MainVars

\* get_csrf_token, lines 367-373.
get_csrf_token(resp) ==
    IF wikidata_post(resp) = "return" /\ resp.body = "token" THEN "return"
    ELSE IF wikidata_post(resp) = "return" THEN "ValueError:token"
    ELSE wikidata_post(resp)

\* Line 297.
downgrade_csrf_step ==
    /\ pc = "downgrade_csrf"
    /\ \E resp \in TokenResponses :
          /\ calls' = Append(calls, Call("query:tokens:csrf", None, None, <<>>, resp))
          /\ IF get_csrf_token(resp) = "return"
             THEN /\ pc' = "downgrade_loop"
                  /\ idx' = 1
                  /\ UNCHANGED <<exit_code, failure, out>>
             ELSE Raise(ClientPrints(wikidata_post(resp))) /\ UNCHANGED idx
    /\ UNCHANGED <<remote, version_statements, claim_id>>
    /\ UNCHANGED MainVars

\* The loop stops after the first statement it has downgraded.
downgrade_next_stop_after_first(stmts, i) ==
    IF i > Len(stmts) THEN "done"
    ELSE IF \E j \in 1..(i - 1) : stmts[j].rank = "preferred" THEN "done"
    ELSE IF stmts[i].rank = "preferred" THEN "set_rank"
    ELSE "skip"

\* No statement is downgraded.
downgrade_next_skipping_all(stmts, i) ==
    IF i > Len(stmts) THEN "done" ELSE "skip"

\* Every statement that is not normal is downgraded.
downgrade_next_unless_normal(stmts, i) ==
    IF i > Len(stmts) THEN "done"
    ELSE IF stmts[i].rank # "normal" THEN "set_rank"
    ELSE "skip"

\* Lines 299-300: what the loop does at position i of the list.
downgrade_next(stmts, i) ==
    IF i > Len(stmts) THEN "done"
    ELSE IF stmts[i].rank = "preferred" THEN "set_rank"
    ELSE "skip"

\* Lines 299-310: one turn of the loop of downgrade_version_ranks, or its
\* end and the return to line 467 of main.
downgrade_loop_step ==
    /\ pc = "downgrade_loop"
    /\ LET what == downgrade_next(version_statements, idx)
       IN  IF what = "done"
           THEN /\ pc' = "add_csrf"
                /\ out' = Append(out, "Adding new version statement...")
                /\ UNCHANGED <<exit_code, failure, idx, calls, remote>>
           ELSE IF what = "skip"
           THEN /\ idx' = idx + 1
                /\ UNCHANGED <<pc, exit_code, failure, out, calls, remote>>
           ELSE \E resp \in OkResponses : \E applied \in Applied(resp) :
                   LET id == version_statements[idx].id
                       printed == <<"Downgrading claim">>
                   IN  /\ calls' = Append(calls,
                                       Call("wbsetclaimrank", id, "normal", <<>>, resp))
                       /\ remote' = IF applied
                                    THEN SetClaimRank(remote, id, "normal")
                                    ELSE remote
                       /\ IF wikidata_post(resp) = "return"
                          THEN /\ idx' = idx + 1
                               /\ out' = out \o printed
                               /\ UNCHANGED <<pc, exit_code, failure>>
                          ELSE /\ Raise(printed \o ClientPrints(wikidata_post(resp)))
                               /\ UNCHANGED idx
    /\ UNCHANGED <<version_statements, claim_id>>
    /\ UNCHANGED MainVars

\* Line 317.
add_csrf_step ==
    /\ pc = "add_csrf"
    /\ \E resp \in TokenResponses :
          /\ calls' = Append(calls, Call("query:tokens:csrf", None, None, <<>>, resp))
          /\ IF get_csrf_token(resp) = "return"
             THEN /\ pc' = "create_claim"
                  /\ UNCHANGED <<exit_code, failure, out>>
             ELSE Raise(ClientPrints(wikidata_post(resp)))
    /\ UNCHANGED <<remote, version_statements, idx, claim_id>>
    /\ UNCHANGED MainVars

ClaimResponses == {Response("object", "claim")} \cup Failures

\* Lines 320-333.
create_claim_step ==
    /\ pc = "create_claim"
    /\ \E resp \in ClaimResponses : \E applied \in Applied(resp) :
          /\ calls' = Append(calls, Call("wbcreateclaim", None, None, argv.version, resp))
          /\ remote' = IF applied THEN CreateClaim(remote, argv.version)
                       ELSE remote
          /\ IF wikidata_post(resp) = "return"
             THEN /\ claim_id' = FreshClaimId(remote)
                  /\ pc' = "set_rank"
                  /\ out' = out \o <<"Adding version", "Created claim">>
                  /\ UNCHANGED <<exit_code, failure>>
             ELSE /\ Raise(<<"Adding version">> \o ClientPrints(wikidata_post(resp)))
                  /\ UNCHANGED claim_id
    /\ UNCHANGED <<version_statements, idx>>
    /\ UNCHANGED MainVars

\* Lines 336-343.
set_rank_step ==
    /\ pc = "set_rank"
    /\ \E resp \in OkResponses : \E applied \in Applied(resp) :
          /\ calls' = Append(calls,
                          Call("wbsetclaimrank", claim_id, "preferred", <<>>, resp))
          /\ remote' = IF applied THEN SetClaimRank(remote, claim_id, "preferred")
                       ELSE remote
          /\ IF wikidata_post(resp) = "return"
             THEN /\ pc' = "set_qualifier"
                  /\ out' = Append(out, "Set rank to preferred")
                  /\ UNCHANGED <<exit_code, failure>>
             ELSE Raise(ClientPrints(wikidata_post(resp)))
    /\ UNCHANGED <<version_statements, idx, claim_id>>
    /\ UNCHANGED MainVars

\* Lines 346-364, and line 470 of main.
set_qualifier_step ==
    /\ pc = "set_qualifier"
    /\ \E resp \in OkResponses : \E applied \in Applied(resp) :
          /\ calls' = Append(calls,
                          Call("wbsetqualifier", claim_id, None,
                               QualifierValue(argv.release_date), resp))
          /\ remote' = IF applied
                       THEN SetQualifier(remote, claim_id,
                                         QualifierValue(argv.release_date))
                       ELSE remote
          /\ IF wikidata_post(resp) = "return"
             THEN Exit("none", <<"Added publication date qualifier",
                               "Successfully updated">>)
             ELSE Raise(ClientPrints(wikidata_post(resp)))
    /\ UNCHANGED <<version_statements, idx, claim_id>>
    /\ UNCHANGED MainVars

\* Lines 476-477: a KeyboardInterrupt anywhere in main's try block is
\* reported and main returns.
InMain == pc \notin {"click", "exited"}

keyboard_interrupt ==
    /\ InMain
    /\ Exit("cancelled", <<"Operation cancelled by user.">>)
    /\ UNCHANGED <<remote, version_statements, idx, claim_id, calls>>
    /\ UNCHANGED MainVars

Next ==
    \/ click_parse
    \/ load_config_step
    \/ load_session_step
    \/ probe_step
    \/ get_login_token_step
    \/ login_step
    \/ save_session_write_step
    \/ save_session_chmod_step
    \/ get_version_statements_step
    \/ downgrade_csrf_step
    \/ downgrade_loop_step
    \/ add_csrf_step
    \/ create_claim_step
    \/ set_rank_step
    \/ set_qualifier_step
    \/ keyboard_interrupt

Spec == Init /\ [][Next]_vars

(***************************************************************************)
(* The same invocation over the command lines the validators let through   *)
(* although they are not of the documented form.                           *)
(***************************************************************************)
QidArgSamples == QidSamples \cup {<<"Q", "u0663">>}

DateArgSamples ==
    DateSamples \cup {<<"2", "0", "2", "4", "-", "6", "-", "1">>}

InitArgs ==
    /\ Idle
    /\ NoFunction
    /\ \E q \in QidArgSamples, d \in DateArgSamples, dry \in BOOLEAN :
          argv = Argv(q, NewVersion, d, dry, "cliU", "cliP", None, None)
    /\ environ = Environ(None, None, None, None)
    /\ config_files = [p \in ConfigPaths |-> NoConfigFile]
    /\ \E f \in {NoSessionFile, SessionFile(TRUE, SessionText(OldCookies), 384)} :
          session_files = [p \in SessionPaths |-> f]
    /\ remote \in {r \in StatementLists : Len(r) <= 1}

SpecArgs == InitArgs /\ [][Next]_vars

(***************************************************************************)
(* The same invocation over the contents of the session file.              *)
(***************************************************************************)
InitFiles ==
    /\ Idle
    /\ NoFunction
    /\ \E dry \in BOOLEAN, sf \in {None, "cli.json"} :
          argv = Argv(<<"Q", "1">>, NewVersion,
                      <<"2", "0", "2", "4", "-", "0", "6", "-", "0", "1">>,
                      dry, "cliU", "cliP", sf, None)
    /\ environ = Environ(None, None, None, None)
    /\ config_files = [p \in ConfigPaths |-> NoConfigFile]
    /\ \E f \in {NoSessionFile, SessionFile(TRUE, SessionText(OldCookies), 384),
                  SessionFile(TRUE, SessionText(<<>>), 384),
                  SessionFile(TRUE, <<"{", "}">>, 384)}
                    \cup {SessionFile(TRUE, t, m) :
                             t \in NotObjectTexts, m \in NewFileModes} :
          session_files = [p \in SessionPaths |-> f]
    /\ remote \in {r \in StatementLists : Len(r) <= 1}

SpecFiles == InitFiles /\ [][Next]_vars

(***************************************************************************)
(* load_config over the combinations of its sources.                       *)
(***************************************************************************)
ConfigSamples ==
    {NoConfigFile,
     ConfigContent(TRUE, FALSE, FALSE, None, None, None),
     ConfigContent(TRUE, TRUE, FALSE, None, None, None),
     ConfigContent(TRUE, TRUE, TRUE, "cfgU", None, None),
     ConfigContent(TRUE, TRUE, TRUE, None, "cfgP", None),
     ConfigContent(TRUE, TRUE, TRUE, "cfgU", "cfgP", None),
     ConfigContent(TRUE, TRUE, TRUE, "cfgU", "cfgP", "cfg.json"),
     ConfigContent(TRUE, TRUE, TRUE, "", "cfgP", None)}

InitConfig ==
    /\ Idle
    /\ NoFunction
    /\ \E u \in {None, "", "cliU"}, p \in {None, "cliP"},
          sf \in {None, "cli.json"}, cf \in {None, "cli.cfg"} :
          argv = Argv(<<"Q", "1">>, NewVersion,
                      <<"2", "0", "2", "4", "-", "0", "6", "-", "0", "1">>,
                      FALSE, u, p, sf, cf)
    /\ \E u \in {None, "envU"}, p \in {None, "", "envP"},
          sf \in {None, "env.json"}, cf \in {None, "env.cfg"} :
          environ = Environ(u, p, sf, cf)
    /\ \E c \in ConfigSamples,
          c1 \in {NoConfigFile,
                  ConfigContent(TRUE, TRUE, TRUE, "cliCfgU", "cliCfgP", None)},
          c2 \in {NoConfigFile,
                  ConfigContent(TRUE, TRUE, TRUE, "envCfgU", "envCfgP", None)} :
          config_files = [p \in ConfigPaths |->
                             IF p = CONFIG_FILE THEN c
                             ELSE IF p = "cli.cfg" THEN c1 ELSE c2]
    /\ session_files = [p \in SessionPaths |-> NoSessionFile]
    /\ remote = <<>>

\* click has parsed the command line; get_authenticated_session calls
\* load_config and the run goes no further here.
NextConfig ==
    \/ click_parse
    \/ load_config_step

SpecConfig == InitConfig /\ [][NextConfig]_vars

(***************************************************************************)
(* The validators over their inputs.                                       *)
(***************************************************************************)
Pending == [status |-> "pending", value |-> <<>>]

NotRunning ==
    /\ argv = Argv(<<>>, <<>>, <<>>, FALSE, None, None, None, None)
    /\ environ = Environ(None, None, None, None)
    /\ config_files = [p \in ConfigPaths |-> NoConfigFile]
    /\ session_files = [p \in SessionPaths |-> NoSessionFile]
    /\ remote = <<>>
    /\ peer = NoPeer
    /\ pc = "function"
    /\ config = NoConfig
    /\ session_file_path = None
    /\ session = NoSession
    /\ version_statements = <<>>
    /\ idx = 0
    /\ claim_id = None
    /\ calls = <<>>
    /\ file_log = <<>>
    /\ out = <<>>
    /\ exit_code = -1
    /\ failure = "none"

FunctionVars == <<argv, environ, config_files, session_files, remote, pc,
                  config, session_file_path, session, version_statements,
                  idx, claim_id, calls, file_log, out, exit_code, failure,
                  peer>>

QidAlphabet == {"Q", "q", "0", "1", "-", " ", "a", "u0663", "u00B2"}

QidInputs == SeqsUpTo(QidAlphabet, MaxQidLen)

InitQid ==
    /\ NotRunning
    /\ fn_in \in QidInputs
    /\ fn_out = Pending

call_validate_qid ==
    /\ fn_out = Pending
    /\ fn_out' = validate_qid(fn_in)
    /\ UNCHANGED fn_in
    /\ UNCHANGED FunctionVars

SpecQid == InitQid /\ [][call_validate_qid]_vars

Chars(ss) == {<<c>> : c \in ss}

YearSamples ==
    {<<"2", "0", "2", "4">>, <<"2", "0", "2", "3">>, <<"1", "9", "0", "0">>,
     <<"2", "0", "0", "0">>, <<"0", "0", "0", "0">>, <<"2", "4">>,
     <<"u0663", "0", "2", "4">>}

MonthSamples ==
    {<<"0", "2">>, <<"2">>, <<"0", "6">>, <<"0", "4">>, <<"1", "2">>,
     <<"1", "3">>, <<"0", "0">>}

DaySamples ==
    {<<"2", "9">>, <<"3", "0">>, <<"3", "1">>, <<"0", "1">>, <<"1">>,
     <<" ", "1">>, <<"0", "0">>, <<"3", "2">>, <<"2", "8">>}

DateInputs ==
    {y \o s1 \o m \o s2 \o d \o t :
        y \in YearSamples, s1 \in Chars({"-", "/"}), m \in MonthSamples,
        s2 \in Chars({"-"}), d \in DaySamples, t \in {<<>>, <<" ">>}}

InitDate ==
    /\ NotRunning
    /\ fn_in \in DateInputs
    /\ fn_out = Pending

call_validate_date ==
    /\ fn_out = Pending
    /\ fn_out' = validate_date(fn_in)
    /\ UNCHANGED fn_in
    /\ UNCHANGED FunctionVars

SpecDate == InitDate /\ [][call_validate_date]_vars

(***************************************************************************)
(* downgrade_version_ranks over the lists of statements passed to it.  A   *)
(* statement without a "rank" key has rank None.                           *)
(***************************************************************************)
Ranks == {"preferred", "normal", "deprecated", None}

DowngradeLists ==
    UNION {{[i \in 1..n |->
                Statement(StatementId(i), k[i], "value", OldVersion, <<>>)]
              : k \in [1..n -> Ranks]}
           : n \in 0..MaxDowngradeLen}

\* main has called downgrade_version_ranks(session, version_statements).
InitDowngrade ==
    /\ NoFunction
    /\ argv = Argv(<<"Q", "1">>, NewVersion,
                   <<"2", "0", "2", "4", "-", "0", "6", "-", "0", "1">>,
                   FALSE, "cliU", "cliP", None, None)
    /\ environ = Environ(None, None, None, None)
    /\ config_files = [p \in ConfigPaths |-> NoConfigFile]
    /\ session_files =
           [p \in SessionPaths |-> SessionFile(TRUE, SessionText(OldCookies), 384)]
    /\ config = ConfigResult("ok", "cliU", "cliP", None, "nothing")
    /\ session_file_path = DEFAULT_SESSION_FILE
    /\ session = [cookies |-> OldCookies, source |-> "cached"]
    /\ version_statements \in DowngradeLists
    /\ remote = version_statements
    /\ peer = NoPeer
    /\ pc = "downgrade_csrf"
    /\ idx = 0
    /\ claim_id = None
    /\ calls = <<>>
    /\ file_log = <<>>
    /\ out = <<>>
    /\ exit_code = -1
    /\ failure = "none"

NextDowngrade ==
    \/ downgrade_csrf_step
    \/ downgrade_loop_step

SpecDowngrade == InitDowngrade /\ [][NextDowngrade]_vars

(***************************************************************************)
(* Two invocations on the same entity at the same time, each with a        *)
(* version of its own. Nothing in the program keeps them apart: every      *)
(* request of one may come between any two requests of the other.          *)
(***************************************************************************)
TwoArgv(version) ==
    Argv(<<"Q", "1">>, version,
         <<"2", "0", "2", "4", "-", "0", "6", "-", "0", "1">>,
         FALSE, "cliU", "cliP", None, None)

\* The entity before the two runs: no version yet, or one preferred one.
TwoRemotes ==
    {<<>>, <<Statement(StatementId(1), "preferred", "value", OldVersion, <<>>)>>}

\* Both have their session and are about to read the entity (line 434).
InitTwo ==
    /\ NoFunction
    /\ argv = TwoArgv(NewVersion)
    /\ peer = Invocation("get_version_statements", TwoArgv(OtherVersion),
                         [cookies |-> OldCookies, source |-> "cached"],
                         <<>>, 0, None, <<>>, -1, "none")
    /\ environ = Environ(None, None, None, None)
    /\ config_files = [p \in ConfigPaths |-> NoConfigFile]
    /\ session_files =
           [p \in SessionPaths |-> SessionFile(TRUE, SessionText(OldCookies), 384)]
    /\ config = ConfigResult("ok", "cliU", "cliP", None, "nothing")
    /\ session_file_path = DEFAULT_SESSION_FILE
    /\ session = [cookies |-> OldCookies, source |-> "cached"]
    /\ version_statements = <<>>
    /\ remote \in TwoRemotes
    /\ pc = "get_version_statements"
    /\ idx = 0
    /\ claim_id = None
    /\ calls = <<>>
    /\ file_log = <<>>
    /\ out = <<>>
    /\ exit_code = -1
    /\ failure = "none"

\* The operating system runs the other process: the next request that
\* reaches the server is one of the other invocation.
other_process_runs ==
    /\ peer.pc \notin {"none", "exited"}
    /\ peer' = Invocation(pc, argv, session, version_statements, idx, claim_id,
                          out, exit_code, failure)
    /\ pc' = peer.pc
    /\ argv' = peer.argv
    /\ session' = peer.session
    /\ version_statements' = peer.version_statements
    /\ idx' = peer.idx
    /\ claim_id' = peer.claim_id
    /\ out' = peer.out
    /\ exit_code' = peer.exit_code
    /\ failure' = peer.failure
    /\ UNCHANGED <<environ, config_files, session_files, remote, config,
                   session_file_path, calls, file_log, fn_in, fn_out>>

NextTwo ==
    \/ get_version_statements_step
    \/ downgrade_csrf_step
    \/ downgrade_loop_step
    \/ add_csrf_step
    \/ create_claim_step
    \/ set_rank_step
    \/ set_qualifier_step
    \/ other_process_runs

SpecTwo == InitTwo /\ [][NextTwo]_vars

(***************************************************************************)
(* wikidata_get and wikidata_post over the requests made with them and the *)
(* responses they can get.                                                 *)
(***************************************************************************)
GetActions == {"query:tokens:login", "query:userinfo", "wbgetentities"}

PostActions ==
    {"query:tokens:csrf", "wbsetclaimrank", "wbcreateclaim", "wbsetqualifier"}

\* Bodies that parse as JSON and are no object: a list and a string, with
\* and without "error" in them, a number, the booleans and null.
NonObjectResponses ==
    {Response(k, b) : k \in {"list", "string"}, b \in {"none", "error"}}
        \cup {Response(k, "none") : k \in {"number", "true", "false", "null"}}

ClientResponses ==
    UserinfoResponses \cup TokenResponses \cup EntityResponses
        \cup OkResponses \cup ClaimResponses \cup NonObjectResponses

ClientCall(function, action, resp) ==
    [function |-> function, action |-> action, resp |-> resp]

ClientResult(status, value) == [status |-> status, value |-> value]

NoResponse == Response("none", "none")

InitClient ==
    /\ NotRunning
    /\ \E resp \in ClientResponses :
          \/ \E a \in GetActions : fn_in = ClientCall("wikidata_get", a, resp)
          \/ \E a \in PostActions : fn_in = ClientCall("wikidata_post", a, resp)
    /\ fn_out = ClientResult("pending", NoResponse)

ClientVars == <<argv, environ, config_files, session_files, remote, pc,
                config, session_file_path, session, version_statements,
                idx, claim_id, file_log, exit_code, failure, fn_in, peer>>

\* wikidata_get(session, action=...)
call_wikidata_get ==
    /\ fn_in.function = "wikidata_get"
    /\ fn_out.status = "pending"
    /\ calls' = Append(calls, Call(fn_in.action, None, None, <<>>, fn_in.resp))
    /\ out' = out \o ClientPrints(wikidata_get(fn_in.resp))
    /\ fn_out' = ClientResult(wikidata_get(fn_in.resp),
                              IF wikidata_get(fn_in.resp) = "return"
                              THEN fn_in.resp ELSE NoResponse)
    /\ UNCHANGED ClientVars

\* wikidata_post(session, action=...)
call_wikidata_post ==
    /\ fn_in.function = "wikidata_post"
    /\ fn_out.status = "pending"
    /\ calls' = Append(calls, Call(fn_in.action, None, None, <<>>, fn_in.resp))
    /\ out' = out \o ClientPrints(wikidata_post(fn_in.resp))
    /\ fn_out' = ClientResult(wikidata_post(fn_in.resp),
                              IF wikidata_post(fn_in.resp) = "return"
                              THEN fn_in.resp ELSE NoResponse)
    /\ UNCHANGED ClientVars

NextClient ==
    \/ call_wikidata_get
    \/ call_wikidata_post

SpecClient == InitClient /\ [][NextClient]_vars

(***************************************************************************)
(* save_session followed by load_session, over cookie mappings.            *)
(***************************************************************************)
CookieNames == {<<"s">>, <<"a", QUOTE>>, <<>>}

CookieValues ==
    {<<>>, <<"o">>, <<QUOTE>>, <<BACKSLASH, "n">>, <<"u00E9", LF>>}

\* The cookie jars of at most n cookies with names of their own.
RECURSIVE CookieJars(_)
CookieJars(n) ==
    IF n = 0 THEN {<<>>}
    ELSE LET fewer == CookieJars(n - 1)
         IN  fewer \cup
             {Append(j, Cookie(name, value)) :
                 j \in {k \in fewer : Len(k) = n - 1},
                 name \in CookieNames, value \in CookieValues}

DistinctNames(jar) ==
    \A i, j \in 1..Len(jar) : jar[i].key = jar[j].key => i = j

CookieMappings == {jar \in CookieJars(MaxCookies) : DistinctNames(jar)}

InitRoundTrip ==
    /\ argv = Argv(<<>>, <<>>, <<>>, FALSE, None, None, None, None)
    /\ environ = Environ(None, None, None, None)
    /\ config_files = [p \in ConfigPaths |-> NoConfigFile]
    /\ \E f \in {NoSessionFile, SessionFile(TRUE, SessionText(OldCookies), 420),
                  SessionFile(TRUE, <<InvalidByte>>, 384)} :
          session_files = [p \in SessionPaths |-> f]
    /\ remote = <<>>
    /\ peer = NoPeer
    /\ pc = "function"
    /\ config = NoConfig
    /\ session_file_path \in {DEFAULT_SESSION_FILE, "cli.json"}
    /\ session = NoSession
    /\ version_statements = <<>>
    /\ idx = 0
    /\ claim_id = None
    /\ calls = <<>>
    /\ file_log = <<>>
    /\ out = <<>>
    /\ exit_code = -1
    /\ failure = "none"
    /\ fn_in \in CookieMappings
    /\ fn_out = Pending

RoundTripVars == <<argv, environ, config_files, remote, pc, config,
                   session_file_path, session, version_statements, idx,
                   claim_id, calls, out, exit_code, failure, fn_in, peer>>

\* save_session({"cookies": fn_in}, session_file_path)
call_save_session ==
    /\ pc = "function"
    /\ file_log = <<>>
    /\ \E m \in NewFileModes :
          session_files' =
              [session_files EXCEPT ![session_file_path] =
                  save_session_chmod(
                      save_session_write(@, SessionData(fn_in), m))]
    /\ file_log' = <<FileOp("write", session_file_path),
                     FileOp("chmod", session_file_path)>>
    /\ UNCHANGED fn_out
    /\ UNCHANGED RoundTripVars

\* load_session(session_file_path), after the save.
call_load_session ==
    /\ pc = "function"
    /\ file_log # <<>>
    /\ fn_out = Pending
    /\ LET r == load_session(session_files[session_file_path])
       IN  fn_out' = [status |-> r.status, value |-> r.cookies]
    /\ file_log' = Append(file_log, FileOp("read", session_file_path))
    /\ UNCHANGED session_files
    /\ UNCHANGED RoundTripVars

NextRoundTrip ==
    \/ call_save_session
    \/ call_load_session

SpecRoundTrip == InitRoundTrip /\ [][NextRoundTrip]_vars

(***************************************************************************)
(* Properties.                                                             *)
(***************************************************************************)
CallsOf(actions) == {i \in 1..Len(calls) : calls[i].action \in actions}

Printed(tag) == \E i \in 1..Len(out) : out[i] = tag

\* The invocation ran to the end of main without an error or interrupt.
Succeeded == pc = "exited" /\ failure = "none"

\* C1: after a successful invocation that is not a dry run, exactly the
\* statement this invocation created has rank "preferred" among the
\* entity's P348 statements, whatever ranks the statements had before.
C1_OnlyNewStatementPreferred ==
    (Succeeded /\ ~argv.dry_run) =>
        /\ claim_id = NewClaimId
        /\ \A i \in 1..Len(version_statements) :
              version_statements[i].id # claim_id
        /\ \E i \in 1..Len(remote) : remote[i].id = claim_id
        /\ \A i \in 1..Len(remote) :
              remote[i].rank = "preferred" <=> remote[i].id = claim_id

\* A successful run on an entity that had two preferred statements.
C1_Witness ==
    /\ Succeeded /\ ~argv.dry_run
    /\ Cardinality(PreferredIndexes(version_statements)) >= 2

MutatingActions ==
    {"wbsetclaimrank", "wbcreateclaim", "wbsetqualifier", "query:tokens:csrf"}

\* C2: a dry run issues no wbsetclaimrank, wbcreateclaim, wbsetqualifier
\* or CSRF token request and at most one wbgetentities, and no step of it
\* changes the statements on the server.
C2_DryRunChangesNothing ==
    /\ [](argv.dry_run =>
            /\ CallsOf(MutatingActions) = {}
            /\ Cardinality(CallsOf({"wbgetentities"})) <= 1)
    /\ [][argv.dry_run => remote' = remote]_vars

\* A dry run that completed on an entity with a preferred statement.
C2_Witness ==
    /\ Succeeded /\ argv.dry_run
    /\ PreferredIndexes(remote) # {}
    /\ CallsOf({"wbgetentities"}) # {}

\* The documented forms: ^Q[0-9]+$ and YYYY-MM-DD for a day that exists.
MatchesQidPattern(s) ==
    /\ Len(s) >= 2
    /\ s[1] = "Q"
    /\ \A i \in 2..Len(s) : s[i] \in AsciiDigits

IsIsoDate(s) ==
    /\ Len(s) = 10
    /\ \A i \in {1, 2, 3, 4, 6, 7, 9, 10} : s[i] \in AsciiDigits
    /\ s[5] = "-" /\ s[8] = "-"
    /\ LET y == IntOf(SubSeq(s, 1, 4))
           m == IntOf(SubSeq(s, 6, 7))
           d == IntOf(SubSeq(s, 9, 10))
       IN  y >= 1 /\ m \in 1..12 /\ d \in 1..DaysInMonth(y, m)

\* Nothing but the parsing of the command line has happened.
NothingDone ==
    /\ config = NoConfig
    /\ session_file_path = None
    /\ session = NoSession
    /\ calls = <<>>
    /\ file_log = <<>>

\* C3: once click has parsed the command line, an invocation whose QID is
\* not of the form ^Q[0-9]+$ or whose release date is not a YYYY-MM-DD date
\* has ended with a parameter error, without credentials resolved, session
\* file accessed, session created or request sent.
C3_InvalidArgumentsAbortBeforeNetwork ==
    (pc # "click" /\ (~MatchesQidPattern(argv.qid) \/ ~IsIsoDate(argv.release_date)))
        => (pc = "exited" /\ failure = "validation" /\ NothingDone)

\* C4: validate_qid returns its input for the strings matching ^Q[0-9]+$
\* and raises a parameter error for every other string.
C4_ValidateQidAcceptsExactlyThePattern ==
    fn_out # Pending =>
        IF MatchesQidPattern(fn_in)
        THEN fn_out = [status |-> "returned", value |-> fn_in]
        ELSE fn_out.status = "BadParameter"

\* C5: validate_date returns its input for the real calendar dates written
\* YYYY-MM-DD and raises a parameter error for every other string, so the
\* qualifier time of an accepted date is +YYYY-MM-DDT00:00:00Z.
C5_ValidateDateAcceptsExactlyIsoDates ==
    fn_out # Pending =>
        IF IsIsoDate(fn_in)
        THEN fn_out = [status |-> "returned", value |-> fn_in]
        ELSE fn_out.status = "BadParameter"

\* A value is supplied when it is there and not empty.
Supplied(v) == v # None /\ v # ""

Both(pair) == Supplied(pair[1]) /\ Supplied(pair[2])

CliPair == <<argv.username, argv.password>>

EnvPair == <<environ.WIKIDATA_BOT_USERNAME, environ.WIKIDATA_BOT_PASSWORD>>

\* The config file load_config would read.
TheConfigFile == config_files[ConfigFilePath(argv.config_file, environ)]

FilePair == <<TheConfigFile.username, TheConfigFile.password>>

ResolvedPair == <<config.bot_username, config.bot_password>>

LoadConfigDone == pc \notin {"click", "load_config"}

\* C6: load_config returns the pair of the command line when that supplies
\* both values, else the pair of the environment when that supplies both,
\* else the pair of the [bot] section of the config file, and it returns
\* that only when the section has both keys; the pair is always the pair
\* of one source.
C6_CredentialPrecedence ==
    LoadConfigDone =>
        IF Both(CliPair) THEN config.status = "ok" /\ ResolvedPair = CliPair
        ELSE IF Both(EnvPair)
        THEN config.status = "ok" /\ ResolvedPair = EnvPair
        ELSE IF /\ TheConfigFile.exists /\ TheConfigFile.parses
                /\ TheConfigFile.has_bot
                /\ TheConfigFile.username # None
                /\ TheConfigFile.password # None
        THEN config.status = "ok" /\ ResolvedPair = FilePair
        ELSE config.status = "none" /\ pc = "exited"

\* Command line and environment both supply a pair, and a config file with
\* a third pair is there.
C6_Witness ==
    /\ LoadConfigDone
    /\ Both(CliPair) /\ Both(EnvPair) /\ CliPair # EnvPair
    /\ TheConfigFile.exists /\ TheConfigFile.has_bot
    /\ config.status = "ok"

\* C7: when neither command line nor environment supplies both values and
\* the config file is missing, or has no [bot] section, or lacks a key,
\* load_config prints the usage hint and the process ends with a non-zero
\* status before any session file access or request.
C7_UnusableConfigPrintsUsageHint ==
    (/\ LoadConfigDone
     /\ ~Both(CliPair) /\ ~Both(EnvPair)
     /\ \/ ~TheConfigFile.exists
        \/ /\ TheConfigFile.parses
           /\ \/ ~TheConfigFile.has_bot
              \/ TheConfigFile.username = None
              \/ TheConfigFile.password = None)
        => /\ pc = "exited"
           /\ Printed("usage_hint")
           /\ exit_code \notin {0, -1}
           /\ calls = <<>>
           /\ file_log = <<>>

ValidationFails ==
    \/ validate_qid(argv.qid).status = "BadParameter"
    \/ validate_date(argv.release_date).status = "BadParameter"

ConfigLoadingFails ==
    load_config(argv.username, argv.password, argv.session_file,
                argv.config_file, environ, config_files).status # "ok"

\* C8 as stated: validation failures and config loading failures end with
\* status 1, every other failure with a non-zero status.
C8_ValidationAndConfigFailuresExitOne ==
    /\ (pc # "click" /\ ValidationFails) => (pc = "exited" /\ exit_code = 1)
    /\ (LoadConfigDone /\ ~ValidationFails /\ ConfigLoadingFails
            /\ failure # "cancelled")
           => (pc = "exited" /\ exit_code = 1)
    /\ (pc = "exited" /\ failure = "exception") => exit_code \notin {0, -1}

\* C8 as amended: an invocation whose QID or release date a validator
\* rejects ends with status 2, one whose config loading fails with status
\* 1, and one that an exception ends with a non-zero status.
C8_ExitStatusByFailure ==
    /\ (pc # "click" /\ ValidationFails) => (pc = "exited" /\ exit_code = 2)
    /\ (LoadConfigDone /\ ~ValidationFails /\ ConfigLoadingFails
            /\ failure # "cancelled")
           => (pc = "exited" /\ exit_code = 1)
    /\ (pc = "exited" /\ failure = "exception") => exit_code \notin {0, -1}

\* An invocation with a valid QID and a rejected date has ended.
C8_Witness ==
    /\ pc = "exited"
    /\ validate_qid(argv.qid).status = "returned"
    /\ validate_date(argv.release_date).status = "BadParameter"
    /\ exit_code = 2

\* get_authenticated_session has returned to main.
InMainBody ==
    \/ pc \in {"get_version_statements", "downgrade_csrf", "downgrade_loop",
               "add_csrf", "create_claim", "set_rank", "set_qualifier"}
    \/ pc = "exited" /\ CallsOf({"wbgetentities"}) # {}

TheSessionFile == session_files[session_file_path]

\* C9: once get_authenticated_session has returned from a fresh login, the
\* session file at the resolved path holds the cookies of the new session
\* under "cookies" and has mode 0600.
C9_FreshLoginSavesSession0600 ==
    (InMainBody /\ session.source = "login") =>
        /\ TheSessionFile.exists
        /\ load_session(TheSessionFile).status = "dict"
        /\ load_session(TheSessionFile).cookies = session.cookies
        /\ session.cookies = NewCookies
        /\ TheSessionFile.mode = Mode0600

\* A fresh login after the session of an existing file, at the path given
\* on the command line, was found invalid.
C9_Witness ==
    /\ InMainBody /\ session.source = "login"
    /\ Printed("Existing session invalid, logging in again...")
    /\ session_file_path = "cli.json"

\* The probe of the cached session returned a user name that is not empty.
ProbeValid ==
    \E i \in CallsOf({"query:userinfo"}) :
        calls[i].resp = Response("object", "name")

\* C10: when the probe made with the cookies of the session file returns a
\* user name that is not empty, the cached session is returned: no login
\* token is requested, no login is sent, and the session file is only read.
C10_ValidCachedSessionSkipsLogin ==
    ProbeValid =>
        /\ CallsOf({"query:tokens:login", "login"}) = {}
        /\ \A i \in 1..Len(file_log) : file_log[i].op = "read"
        /\ session.source = "cached"
        /\ InMainBody \/ pc = "exited"

\* A run that went through to the end with the cached session.
C10_Witness ==
    /\ ProbeValid
    /\ Succeeded /\ ~argv.dry_run
    /\ CallsOf({"wbsetqualifier"}) # {}

\* The content json.load makes a JSON object of.
IsJsonObject(text) ==
    json_load(text).status = "value" /\ json_load(text).value.type = "dict"

\* The session file has been read and nothing else done with it.
OnlyRead == file_log = <<FileOp("read", session_file_path)>>

\* C11: when the session file holds anything but a JSON object (nothing,
\* truncated JSON, a list, a string, a number, null, bytes that are not
\* text), the invocation goes on as with a missing file: it reports that
\* there is no session and requests a login token, without a probe, and
\* does not end before that because of the file.
C11_NonObjectSessionFileMeansFreshLogin ==
    (/\ OnlyRead
     /\ TheSessionFile.exists
     /\ ~IsJsonObject(TheSessionFile.text)
     /\ failure # "cancelled")
        => /\ Printed("No existing session found, logging in...")
           /\ pc = "exited" => calls # <<>>
           /\ calls # <<>> => calls[1].action = "query:tokens:login"

\* C12: load_session of the path that save_session has written
\* {"cookies": mapping} to returns a dict whose "cookies" is the mapping
\* saved, for every mapping of cookie names to values, the empty one
\* included.
C12_SessionRoundTrip ==
    (pc = "function" /\ fn_out # Pending) =>
        /\ fn_out.status = "dict"
        /\ fn_out.value = fn_in

\* Two cookies, with a quote in a name and a backslash in a value, saved
\* over a file that was there and loaded again.
C12_Witness ==
    /\ pc = "function" /\ fn_out # Pending
    /\ Len(fn_in) = 2
    /\ \E i \in 1..2 : fn_in[i].key = <<"a", QUOTE>>
    /\ \E i \in 1..2 : fn_in[i].value.str = <<BACKSLASH, "n">>
    /\ Len(file_log) = 3

\* The server answered the login request with an "error" key or with a
\* result that is not "Success".
LoginRefused ==
    \E i \in CallsOf({"login"}) :
        calls[i].resp \in {Response("error_object", "none"),
                           Response("object", "Failed")}

\* C13: when the login response carries an "error" key or a result other
\* than "Success", the invocation ends with the login failure raised and
\* reported; get_authenticated_session has not returned a session, the
\* session file has only been read and the login request is the last
\* request sent.  No step of the login changes the session file, and the
\* file changes only by the steps that log a write or a chmod.
C13_RefusedLoginLeavesSessionFile ==
    /\ [](LoginRefused =>
            /\ pc = "exited" /\ failure = "exception"
            /\ Printed("Login failed")
            /\ ~InMainBody
            /\ \A i \in 1..Len(file_log) : file_log[i].op = "read"
            /\ calls[Len(calls)].action = "login"
            /\ CallsOf(MutatingActions \cup {"wbgetentities"}) = {})
    /\ [][(pc \in {"get_login_token", "login"})
              => (session_files' = session_files)]_vars
    /\ [][(file_log' = file_log) => (session_files' = session_files)]_vars

\* A refused login after the session of an existing file was found
\* invalid.
C13_Witness ==
    /\ LoginRefused
    /\ Printed("Existing session invalid, logging in again...")
    /\ TheSessionFile = SessionFile(TRUE, SessionText(OldCookies), 420)

EntityActions ==
    {"wbgetentities", "wbsetclaimrank", "wbcreateclaim", "wbsetqualifier"}

\* What a request asks for.
Request(action, property, claim, rank, value) ==
    [action |-> action, property |-> property, claim |-> claim,
     rank |-> rank, value |-> value]

RequestOf(c) == Request(c.action, c.property, c.claim, c.rank, c.value)

\* The requests about the entity, in the order they were sent.
EntityRequests ==
    LET sent == SelectSeq(calls, LAMBDA c : c.action \in EntityActions)
    IN  [i \in 1..Len(sent) |-> RequestOf(sent[i])]

\* A rank-set to "normal" for each preferred statement of a list, in the
\* order of the list.
DowngradeRequests(stmts) ==
    LET preferred == SelectSeq(stmts, LAMBDA st : st.rank = "preferred")
    IN  [i \in 1..Len(preferred) |->
            Request("wbsetclaimrank", None, preferred[i].id, "normal", <<>>)]

\* The statement the server created for the run.
CreatedId == remote[Len(version_statements) + 1].id

\* C14: the requests about the entity that a successful run that is not a
\* dry run has sent are, in this order: one wbgetentities for the QID; a
\* wbsetclaimrank to "normal" for each preferred statement of the list
\* read, in list order; one wbcreateclaim of P348 with the version; one
\* wbsetclaimrank to "preferred" of the created claim; one wbsetqualifier
\* of P577 on that claim with time +<release_date>T00:00:00Z and
\* precision 11.
C14_CallsOfSuccessfulRun ==
    (Succeeded /\ ~argv.dry_run) =>
        EntityRequests =
            <<Request("wbgetentities", None, None, None, argv.qid)>>
            \o DowngradeRequests(version_statements)
            \o <<Request("wbcreateclaim", "P348", None, None, argv.version),
                 Request("wbsetclaimrank", None, CreatedId, "preferred", <<>>),
                 Request("wbsetqualifier", "P577", CreatedId, None,
                         <<"+">> \o argv.release_date
                             \o <<"T", "0", "0", ":", "0", "0", ":", "0", "0",
                                  "Z", "/", "1", "1">>)>>

\* A successful run on an entity whose second statement was preferred and
\* whose first was not.
C14_Witness ==
    /\ Succeeded /\ ~argv.dry_run
    /\ Len(version_statements) = 2
    /\ version_statements[1].rank = "normal"
    /\ version_statements[2].rank = "preferred"
    /\ Len(EntityRequests) = 5

\* The rank-set requests, in the order they were sent.
RankRequests ==
    LET sent == SelectSeq(calls, LAMBDA c : c.action = "wbsetclaimrank")
    IN  [i \in 1..Len(sent) |-> RequestOf(sent[i])]

IsPrefix(s, t) == Len(s) <= Len(t) /\ s = SubSeq(t, 1, Len(s))

\* downgrade_version_ranks has returned.
DowngradeReturned == pc = "add_csrf"

\* C15: downgrade_version_ranks requests the CSRF token once, before
\* anything else; the rank-set requests it sends are those to "normal"
\* for the preferred statements of its list, by their ids and in list
\* order, each once, and when it returns it has sent one for every
\* preferred statement; it sends none for a statement whose rank is
\* "normal", "deprecated" or absent and none setting "preferred" or
\* "deprecated", so such statements stay as they are on the server.
C15_DowngradeSelectsPreferred ==
    /\ Cardinality(CallsOf({"query:tokens:csrf"})) =
           (IF pc = "downgrade_csrf" THEN 0 ELSE 1)
    /\ calls # <<>> => calls[1].action = "query:tokens:csrf"
    /\ IsPrefix(RankRequests, DowngradeRequests(version_statements))
    /\ DowngradeReturned =>
           RankRequests = DowngradeRequests(version_statements)
    /\ Len(remote) = Len(version_statements)
    /\ \A i \in 1..Len(version_statements) :
           IF version_statements[i].rank = "preferred"
           THEN remote[i].rank \in {"preferred", "normal"}
           ELSE remote[i] = version_statements[i]

\* The function has returned from a list of ranks preferred, normal,
\* preferred, deprecated.
C15_Witness ==
    /\ DowngradeReturned
    /\ Len(version_statements) = 4
    /\ [i \in 1..4 |-> version_statements[i].rank] =
           <<"preferred", "normal", "preferred", "deprecated">>
    /\ Len(RankRequests) = 2

\* The requests main sends once it holds the session.
AfterAuthentication ==
    {"wbgetentities", "query:tokens:csrf", "wbsetclaimrank", "wbcreateclaim",
     "wbsetqualifier"}

\* The request got no answer, an answer that is no JSON, an API error, or
\* an answer of an unexpected shape.
CallFailed(c) ==
    \/ c.resp.kind # "object"
    \/ c.resp.body \in {"nonstr_token", "Failed"}

\* The probe of the cached session did not show a logged-in user.
ProbeInvalid ==
    \E i \in CallsOf({"query:userinfo"}) :
        CallFailed(calls[i]) \/ calls[i].resp.body \in {"empty_name", "no_userinfo"}

\* C16: a request that failed is the last request of the invocation, which
\* has ended with a non-zero status, unless it is the probe of the cached
\* session; for a request sent after authentication there is no
\* exception.  The probe is sent at most once, and when the invocation
\* goes on after a probe that did not validate the session, the next
\* request is the login token request of the one login attempt.
C16_FailuresAreTerminal ==
    /\ \A i \in 1..Len(calls) :
          CallFailed(calls[i]) =>
              \/ /\ i = Len(calls)
                 /\ pc = "exited"
                 /\ exit_code \notin {0, -1}
              \/ /\ calls[i].action = "query:userinfo"
                 /\ calls[i].action \notin AfterAuthentication
    /\ Cardinality(CallsOf({"query:userinfo"})) <= 1
    /\ Cardinality(CallsOf({"query:tokens:login"})) <= 1
    /\ Cardinality(CallsOf({"login"})) <= 1
    /\ (ProbeInvalid /\ Len(calls) >= 2) =>
           /\ calls[1].action = "query:userinfo"
           /\ calls[2].action = "query:tokens:login"

\* After a probe that failed and the fresh login, a rank-set request of
\* the downgrade was answered with an API error.
C16_Witness ==
    /\ pc = "exited"
    /\ \E i \in CallsOf({"query:userinfo"}) : CallFailed(calls[i])
    /\ calls[Len(calls)].action = "wbsetclaimrank"
    /\ calls[Len(calls)].rank = "normal"
    /\ calls[Len(calls)].resp = Response("error_object", "none")
    /\ Len(version_statements) = 2

\* C17: wikidata_get and wikidata_post fail with the type-mismatch error
\* on every body that is JSON and no object (a list, a string, a number,
\* a boolean, null, whatever is in it), fail with the API error, printed,
\* on an object with an "error" key, and return every other object as it
\* is.
C17_ClientResponseHandling ==
    fn_out.status # "pending" =>
        /\ fn_in.resp \in NonObjectResponses => fn_out.status = "ValueError:type"
        /\ fn_in.resp.kind = "error_object" =>
               fn_out.status = "ValueError:api" /\ Printed("API Error")
        /\ fn_in.resp.kind = "object" =>
               fn_out = ClientResult("return", fn_in.resp)

\* The statements that were there before the run have the ids s1, s2, ...
PreExisting(st) == st.id \in {StatementId(i) : i \in 1..Len(remote)}

\* The positions of the requests that set a claim to a rank.
RankSets(rank) ==
    {i \in CallsOf({"wbsetclaimrank"}) : calls[i].rank = rank}

\* C18: in every state of an invocation, also of one that fails or is
\* interrupted, no statement that was there before the run is preferred
\* on the server together with a statement the run created; and before
\* the request that sets the created claim to "preferred", every
\* statement that was preferred in the list read has had a rank-set to
\* "normal" that succeeded.
C18_NeverOldAndNewPreferred ==
    /\ \A i, j \in 1..Len(remote) :
          ~(/\ PreExisting(remote[i]) /\ remote[i].rank = "preferred"
            /\ ~PreExisting(remote[j]) /\ remote[j].rank = "preferred")
    /\ \A p \in RankSets("preferred") :
          \A i \in PreferredIndexes(version_statements) :
              \E n \in RankSets("normal") :
                  /\ n < p
                  /\ calls[n].claim = version_statements[i].id
                  /\ calls[n].resp.kind = "object"

\* The created claim is preferred on an entity that had preferred
\* statements, in a run that then failed at the qualifier.
C18_Witness ==
    /\ pc = "exited" /\ failure = "exception"
    /\ \E j \in 1..Len(remote) :
          ~PreExisting(remote[j]) /\ remote[j].rank = "preferred"
    /\ Cardinality(PreferredIndexes(version_statements)) = 2
    /\ calls[Len(calls)].action = "wbsetqualifier"

\* C19: whenever a session file holds the cookies of the login of this
\* run, its mode is 0600: also between the write and the chmod of
\* save_session, and also when the file was not there before.
C19_CookiesNeverUnderBroaderMode ==
    \A p \in SessionPaths :
        (session_files[p].exists
            /\ session_files[p].text = SessionText(NewCookies))
        => session_files[p].mode = Mode0600


\* Both invocations have gone through all their steps and exited with 0.
BothSucceeded ==
    /\ Succeeded
    /\ peer.pc = "exited"
    /\ peer.failure = "none"

\* C20: when two invocations that add to the same entity at the same time
\* have both succeeded, at most one of its version statements has rank
\* preferred, as after two runs one after the other.
C20_ConcurrentRunsLeaveOnePreferred ==
    BothSucceeded => Cardinality(PreferredIndexes(remote)) <= 1

=============================================================================
